---------------------------- MODULE Spec2Model ----------------------------
(***************************************************************************)
(* Model of the bibliography / CV pipeline of render_static.py and app.py. *)
(*                                                                         *)
(* A Python str is a sequence of TLA+ strings.  Every text that is read    *)
(* from a file or passed in as an argument is a sequence of one-character  *)
(* strings, so that split, strip, replace, the regular expressions and     *)
(* the comparison of strings work character by character.  The literal     *)
(* text of an f-string of the source is kept as one element, so the result *)
(* of a formatter is the concatenation of its elements, Flat(s).           *)
(*                                                                         *)
(* A Python dict is the sequence of its <<key, value>> pairs in insertion  *)
(* order.                                                                  *)
(***************************************************************************)
EXTENDS Integers, Sequences, FiniteSets, TLC

VARIABLES
    bib_file,     \* roytburg.bib: NoFile, or the text of the file
    cv_file,      \* cv/cv.json: NoFile, or the decoded JSON object
    meta_file,    \* publications_meta.json: NoFile, or the decoded JSON object
    author_args,  \* the arguments of a direct call of format_authors
    pc,           \* "start", or the name of the function that has returned
    ret           \* what that function returned or raised

vars == <<bib_file, cv_file, meta_file, author_args, pc, ret>>

\* a path that does not exist, and a file with its content
NoFile == [exists |-> FALSE, content |-> <<>>]
File(c) == [exists |-> TRUE, content |-> c]

\* an optional argument: None, or a value
None == [some |-> FALSE]
Some(v) == [some |-> TRUE, val |-> v]

NotCalled == [kind |-> "none"]

Return(v) == [kind |-> "return", val |-> v]
Raise(e) == [kind |-> "raise", exc |-> e]

-----------------------------------------------------------------------------
(* Python str                                                              *)

Whitespace == {" ", "\n", "\t", "\r"}

UpperCase == <<"A", "B", "C", "D", "E", "F", "G", "H", "I", "J", "K", "L", "M",
               "N", "O", "P", "Q", "R", "S", "T", "U", "V", "W", "X", "Y", "Z">>
LowerCase == <<"a", "b", "c", "d", "e", "f", "g", "h", "i", "j", "k", "l", "m",
               "n", "o", "p", "q", "r", "s", "t", "u", "v", "w", "x", "y", "z">>
Digits == <<"0", "1", "2", "3", "4", "5", "6", "7", "8", "9">>

Range(s) == {s[i] : i \in 1..Len(s)}

WordChars == Range(UpperCase) \cup Range(LowerCase) \cup Range(Digits) \cup {"_"}
UpperChars == Range(UpperCase)

\* \w of the re module on str: letters, digits and the underscore
IsWord(c) == c \in WordChars

\* str.lower(), one character
LowerChar(c) ==
    IF c \in UpperChars
    THEN LowerCase[CHOOSE i \in 1..Len(UpperCase) : UpperCase[i] = c]
    ELSE c

\* str.lower()
Lower(s) == [i \in 1..Len(s) |-> LowerChar(s[i])]

\* the text a str stands for: its elements one after the other
RECURSIVE Flat(_)
Flat(s) ==
    IF s = <<>> THEN ""
    ELSE IF Len(s) = 1 THEN s[1]
    ELSE LET h == Len(s) \div 2
         IN Flat(SubSeq(s, 1, h)) \o Flat(SubSeq(s, h + 1, Len(s)))

\* s[i:] of Python with the 1-based index i
From(s, i) == SubSeq(s, i, Len(s))

\* str.startswith at the 1-based index i
StartsAt(s, pat, i) ==
    /\ i + Len(pat) - 1 <= Len(s)
    /\ \A j \in 1..Len(pat) : s[i + j - 1] = pat[j]

\* the least element of a non-empty set of indices
Least(S) == CHOOSE j \in S : \A h \in S : j <= h

\* str.find: the first 1-based index >= i where pat occurs in s, or 0
Find(s, pat, i) ==
    LET hits == {j \in i..(Len(s) - Len(pat) + 1) : StartsAt(s, pat, j)}
    IN IF hits = {} THEN 0 ELSE Least(hits)

\* pat in s
Contains(s, pat) == Find(s, pat, 1) # 0

\* str.lstrip() and str.rstrip()
RECURSIVE LStrip(_)
LStrip(s) == IF s # <<>> /\ Head(s) \in Whitespace THEN LStrip(Tail(s)) ELSE s

RECURSIVE RStrip(_)
RStrip(s) ==
    IF s # <<>> /\ s[Len(s)] \in Whitespace THEN RStrip(SubSeq(s, 1, Len(s) - 1)) ELSE s

\* str.strip()
Strip(s) == RStrip(LStrip(s))

\* str.split(sep) for a non-empty sep: the pieces between the leftmost
\* non-overlapping occurrences of sep
RECURSIVE Split(_, _)
Split(s, sep) ==
    LET i == Find(s, sep, 1)
    IN IF i = 0 THEN <<s>>
       ELSE <<SubSeq(s, 1, i - 1)>> \o Split(From(s, i + Len(sep)), sep)

\* str.split() without a separator: the maximal runs of non-whitespace
RECURSIVE SplitWhitespace(_)
SplitWhitespace(s) ==
    LET t == Strip(s)
        ws == {i \in 1..Len(t) : t[i] \in Whitespace}
        e == IF ws = {} THEN Len(t) + 1 ELSE CHOOSE i \in ws : \A k \in ws : i <= k
    IN IF t = <<>> THEN <<>>
       ELSE <<SubSeq(t, 1, e - 1)>> \o SplitWhitespace(From(t, e))

\* str.replace(old, new)
RECURSIVE Replace(_, _, _)
Replace(s, old, new) ==
    LET i == Find(s, old, 1)
    IN IF i = 0 THEN s
       ELSE SubSeq(s, 1, i - 1) \o new \o Replace(From(s, i + Len(old)), old, new)

\* sep.join(parts): the parts in order with sep between neighbours
RECURSIVE Join(_, _)
Join(sep, parts) ==
    IF parts = <<>> THEN <<>>
    ELSE IF Len(parts) = 1 THEN parts[1]
    ELSE LET h == Len(parts) \div 2
         IN Join(sep, SubSeq(parts, 1, h)) \o sep
                \o Join(sep, SubSeq(parts, h + 1, Len(parts)))

-----------------------------------------------------------------------------
(* Python dict                                                             *)

EmptyDict == <<>>

Keys(d) == [i \in 1..Len(d) |-> d[i][1]]

\* key in d
Has(d, k) == \E i \in 1..Len(d) : d[i][1] = k

\* d.get(k, default)
Get(d, k, default) ==
    IF Has(d, k) THEN d[CHOOSE i \in 1..Len(d) : d[i][1] = k][2] ELSE default

\* d[k] = v: a new key goes last, a known key keeps its place
Put(d, k, v) ==
    IF Has(d, k)
    THEN [i \in 1..Len(d) |-> IF d[i][1] = k THEN <<k, v>> ELSE d[i]]
    ELSE Append(d, <<k, v>>)

-----------------------------------------------------------------------------
(* parse_bib_file                                                          *)

\* the first index >= i of s that holds a character of the set cs, or Len(s) + 1
NextIn(s, cs, i) ==
    LET hits == {j \in i..Len(s) : s[j] \in cs}
    IN IF hits = {} THEN Len(s) + 1 ELSE Least(hits)

\* the first index >= i of s that holds no word character, or Len(s) + 1
WordEnd(s, i) ==
    LET hits == {j \in i..Len(s) : ~IsWord(s[j])}
    IN IF hits = {} THEN Len(s) + 1 ELSE Least(hits)

\* the first index >= i of s that holds no whitespace, or Len(s) + 1
SpaceEnd(s, i) ==
    LET hits == {j \in i..Len(s) : s[j] \notin Whitespace}
    IN IF hits = {} THEN Len(s) + 1 ELSE Least(hits)

NoMatch == [ok |-> FALSE]

\* re.match of  @(\w+)\{([^,]+),([^@]*)  at index p of content
EntryMatch(content, p) ==
    LET w == WordEnd(content, p + 1)         \* the brace after the type
        q == NextIn(content, {","}, w + 1)   \* the comma after the key
        e == NextIn(content, {"@"}, q + 1)   \* the end of the fields
    IN IF /\ p <= Len(content) /\ content[p] = "@"
          /\ w > p + 1 /\ w <= Len(content) /\ content[w] = "{"
          /\ q > w + 1 /\ q <= Len(content)
       THEN [ok |-> TRUE,
             type |-> SubSeq(content, p + 1, w - 1),
             key |-> SubSeq(content, w + 1, q - 1),
             fields |-> SubSeq(content, q + 1, e - 1),
             end |-> e]
       ELSE NoMatch

\* re.match of  (\w+)\s*=\s*\{([^}]*)\}  at index p of fields_str
FieldMatch(fields_str, p) ==
    LET w == WordEnd(fields_str, p)
        eq == SpaceEnd(fields_str, w)
        b == SpaceEnd(fields_str, eq + 1)
        c == NextIn(fields_str, {"}"}, b + 1)
    IN IF /\ p <= Len(fields_str) /\ IsWord(fields_str[p])
          /\ eq <= Len(fields_str) /\ fields_str[eq] = "="
          /\ b <= Len(fields_str) /\ fields_str[b] = "{"
          /\ c <= Len(fields_str)
       THEN [ok |-> TRUE,
             name |-> SubSeq(fields_str, p, w - 1),
             value |-> SubSeq(fields_str, b + 1, c - 1),
             end |-> c + 1]
       ELSE NoMatch

\* field_value.strip(), .replace('\\#', '#').replace('\n', ' ').strip()
CleanValue(v) ==
    Strip(Replace(Replace(Strip(v), <<"\\", "#">>, <<"#">>), <<"\n">>, <<" ">>))

\* The loop over re.finditer(field_pattern, fields_str), from index p on.
\* A match starts with a word character, so the search goes on at the next
\* one, p1; when there is no match at p1 there is none inside the run of
\* word characters that starts at p1 (what follows the run is the same), so
\* the search goes on after that run.
RECURSIVE ParseFields(_, _, _)
ParseFields(fields_str, p, fields) ==
    LET p1 == NextIn(fields_str, WordChars, p)
        m == FieldMatch(fields_str, p1)
    IN IF p1 > Len(fields_str) THEN fields
       ELSE IF m.ok
       THEN ParseFields(fields_str, m.end,
                        Put(fields, Lower(m.name), CleanValue(m.value)))
       ELSE ParseFields(fields_str, WordEnd(fields_str, p1), fields)

TYPE_KEY == <<"_", "t", "y", "p", "e">>

\* The loop over re.finditer(pattern, content, re.DOTALL), from index p on.
\* A match starts with @, so the search goes on at the next @, p1.
RECURSIVE ParseEntries(_, _, _)
ParseEntries(content, p, entries) ==
    LET p1 == NextIn(content, {"@"}, p)
        m == EntryMatch(content, p1)
    IN IF p1 > Len(content) THEN entries
       ELSE IF m.ok
       THEN ParseEntries(content, m.end,
                Put(entries, Strip(m.key),
                    ParseFields(m.fields, 1, <<<<TYPE_KEY, Lower(m.type)>>>>)))
       ELSE ParseEntries(content, p1 + 1, entries)

\* render_static.parse_bib_file: open() raises when the file is missing
parse_bib_file_static(file) ==
    IF ~file.exists THEN Raise("FileNotFoundError")
    ELSE Return(ParseEntries(file.content, 1, EmptyDict))

\* app.parse_bib_file: a missing file gives the empty dict
parse_bib_file_app(file) ==
    IF ~file.exists THEN Return(EmptyDict)
    ELSE Return(ParseEntries(file.content, 1, EmptyDict))

-----------------------------------------------------------------------------
(* format_authors                                                          *)

AND_SEP == <<" ", "a", "n", "d", " ">>

\* authors = [a.strip() for a in author_str.split(' and ')]
AuthorTokens(author_str) ==
    LET raw == Split(author_str, AND_SEP)
    IN [i \in 1..Len(raw) |-> Strip(raw[i])]

\* 'Last, First' becomes 'First Last': parts[1] and parts[0] of the split at
\* the commas; a token without a comma is the name
AuthorName(author) ==
    IF "," \in Range(author)
    THEN LET parts == Split(author, <<",">>)
         IN Strip(parts[2]) \o <<" ">> \o Strip(parts[1])
    ELSE author

\* highlight_name and (highlight_name.lower() in name.lower() or
\*     any(p.lower() in name.lower() for p in highlight_name.split()))
IsHighlighted(name, highlight_name) ==
    /\ highlight_name.some
    /\ highlight_name.val # <<>>
    /\ \/ Contains(Lower(name), Lower(highlight_name.val))
       \/ LET ps == SplitWhitespace(highlight_name.val)
          IN \E i \in 1..Len(ps) : Contains(Lower(name), Lower(ps[i]))

Highlight(name, highlight_name) ==
    IF IsHighlighted(name, highlight_name)
    THEN <<"<span class=\"highlight\">">> \o name \o <<"</span>">>
    ELSE name

EQUAL_MARK == "<span class=\"equal-contrib\">*</span>"

\* equal_contribution and i in equal_contribution, i the zero-based position
IsEqualContributor(i, equal_contribution) ==
    /\ equal_contribution.some
    /\ equal_contribution.val # <<>>
    /\ i \in Range(equal_contribution.val)

\* JoinAuthors without the comma before the final 'and'
JoinAuthors_NoSerialComma(formatted) ==
    IF Len(formatted) = 1 THEN formatted[1]
    ELSE IF Len(formatted) = 2 THEN formatted[1] \o <<" and ">> \o formatted[2]
    ELSE Join(<<", ">>, SubSeq(formatted, 1, Len(formatted) - 1))
             \o <<" and ">> \o formatted[Len(formatted)]

\* the if / elif / else that joins the formatted names
JoinAuthors(formatted) ==
    IF Len(formatted) = 1 THEN formatted[1]
    ELSE IF Len(formatted) = 2 THEN formatted[1] \o <<" and ">> \o formatted[2]
    ELSE Join(<<", ">>, SubSeq(formatted, 1, Len(formatted) - 1))
             \o <<", and ">> \o formatted[Len(formatted)]

\* render_static.format_authors
format_authors_static(author_str, highlight_name, equal_contribution) ==
    LET authors == AuthorTokens(author_str)
        formatted == [i \in 1..Len(authors) |->
            LET name == Highlight(AuthorName(authors[i]), highlight_name)
            IN IF IsEqualContributor(i - 1, equal_contribution)
               THEN name \o <<EQUAL_MARK>>
               ELSE name]
    IN JoinAuthors(formatted)

\* app.format_authors: no equal-contribution argument
format_authors_app(author_str, highlight_name) ==
    LET authors == AuthorTokens(author_str)
        formatted == [i \in 1..Len(authors) |->
            Highlight(AuthorName(authors[i]), highlight_name)]
    IN JoinAuthors(formatted)

-----------------------------------------------------------------------------
(* format_publication                                                      *)

\* the field names and entry types the formatters look up
F_author == <<"a", "u", "t", "h", "o", "r">>
F_title == <<"t", "i", "t", "l", "e">>
F_year == <<"y", "e", "a", "r">>
F_url == <<"u", "r", "l">>
F_booktitle == <<"b", "o", "o", "k", "t", "i", "t", "l", "e">>
F_volume == <<"v", "o", "l", "u", "m", "e">>
F_pages == <<"p", "a", "g", "e", "s">>
F_journal == <<"j", "o", "u", "r", "n", "a", "l">>
F_type == <<"t", "y", "p", "e">>
F_school == <<"s", "c", "h", "o", "o", "l">>
INPROCEEDINGS == <<"i", "n", "p", "r", "o", "c", "e", "e", "d", "i", "n", "g", "s">>
ARTICLE == <<"a", "r", "t", "i", "c", "l", "e">>
MASTERSTHESIS == <<"m", "a", "s", "t", "e", "r", "s", "t", "h", "e", "s", "i", "s">>

MASTERS_THESIS == <<"Master's Thesis">>

\* the venue of format_publication: the if / elif / else on entry_type
PublicationVenue(entry) ==
    LET entry_type == Get(entry, TYPE_KEY, <<>>)
        vol == IF Get(entry, F_volume, <<>>) # <<>>
               THEN <<", vol. ">> \o Get(entry, F_volume, <<>>) ELSE <<>>
        pp == IF Get(entry, F_pages, <<>>) # <<>>
              THEN <<", pp. ">> \o Get(entry, F_pages, <<>>) ELSE <<>>
    IN IF entry_type = INPROCEEDINGS
       THEN Get(entry, F_booktitle, <<>>) \o vol \o pp
       ELSE IF entry_type = ARTICLE
       THEN Get(entry, F_journal, <<>>) \o vol
       ELSE IF entry_type = MASTERSTHESIS
       THEN Get(entry, F_type, MASTERS_THESIS) \o <<", ">> \o Get(entry, F_school, <<>>)
       ELSE IF Get(entry, F_journal, <<>>) # <<>>
       THEN Get(entry, F_journal, <<>>)
       ELSE Get(entry, F_booktitle, <<>>)

PUB_OPEN == "<p class=\"pub-entry\">"
PUB_CLOSE == ".</p>"

\* the f-string format_publication returns, for the formatted authors
PublicationHtml(authors, entry) ==
    LET title == Get(entry, F_title, <<>>)
        url == Get(entry, F_url, <<>>)
        title_html == IF url # <<>>
                      THEN <<"<a href=\"">> \o url \o <<"\" target=\"_blank\">">>
                               \o title \o <<"</a>">>
                      ELSE title
    IN <<PUB_OPEN>> \o authors \o <<". <strong>">> \o title_html
           \o <<"</strong>. <em>">> \o PublicationVenue(entry) \o <<"</em>, ">>
           \o Get(entry, F_year, <<>>) \o <<PUB_CLOSE>>

\* render_static.format_publication
format_publication_static(entry, highlight_name) ==
    PublicationHtml(
        format_authors_static(Get(entry, F_author, <<>>), highlight_name, None), entry)

\* app.format_publication
format_publication_app(entry, highlight_name) ==
    PublicationHtml(format_authors_app(Get(entry, F_author, <<>>), highlight_name), entry)

-----------------------------------------------------------------------------
(* generate_cv_html and load_cv_content                                    *)
(*                                                                         *)
(* The decoded cv.json is a dict with the field names as TLA+ strings.  A  *)
(* value that the source passes through str() is a JSON number JInt(n) or  *)
(* a JSON string JStr(s); every other text is a str.                       *)

JInt(n) == [t |-> "int", n |-> n, s |-> <<>>]
JStr(s) == [t |-> "str", n |-> 0, s |-> s]

\* str(n) for an integer
RECURSIVE IntToStr(_)
IntToStr(n) ==
    IF n < 0 THEN <<"-">> \o IntToStr(0 - n)
    ELSE IF n < 10 THEN <<Digits[n + 1]>>
    ELSE IntToStr(n \div 10) \o <<Digits[(n % 10) + 1]>>

\* str(x), and the formatting of x inside an f-string
PyStr(x) == IF x.t = "int" THEN IntToStr(x.n) ELSE x.s

SECTION_OPEN == "\n      <section class=\"cv-section\">\n        "
SECTION_CLOSE == "      </section>"

H_SUMMARY == "<h2>Summary</h2>"
H_EDUCATION == "<h2>Education</h2>"
H_EXPERIENCE == "<h2>Experience</h2>"
H_PUBLICATIONS == "<h2>Publications</h2>"
H_CONFERENCE == "<h3>Conference Papers</h3>"
H_JOURNAL == "<h3>Journal Articles</h3>"
H_THESES == "<h3>Theses</h3>"
H_AWARDS == "<h2>Awards & Recognition</h2>"
H_SKILLS == "<h2>Skills</h2>"

\* the code point U+2013 and the code point U+00B7 of the source text
EN_DASH == "{U+2013}"
MIDDLE_DOT == "{U+00B7}"

NOT_FOUND == <<"<p>CV data not found.</p>">>

\* name = f"{cv_data['given-name']} {cv_data['sur-name']}"
FullName(cv_data) ==
    Get(cv_data, "given-name", <<>>) \o <<" ">> \o Get(cv_data, "sur-name", <<>>)

\* the parts appended under  if 'summary' in cv_data
SummarySection(cv_data) ==
    IF Has(cv_data, "summary")
    THEN << <<SECTION_OPEN, H_SUMMARY, "\n        <p>">>
               \o Get(cv_data, "summary", <<>>) \o <<"</p>\n      </section>">> >>
    ELSE <<>>

DegreePart(deg) ==
    <<"\n        <div class=\"cv-entry\">\n          <div class=\"cv-entry-header\">\n            <span class=\"cv-degree\">">>
        \o Get(deg, "degree", <<>>) \o <<", ">> \o Get(deg, "discipline", <<>>)
        \o <<"</span>\n            <span class=\"cv-year\">">>
        \o PyStr(Get(deg, "year", JStr(<<>>)))
        \o <<"</span>\n          </div>\n          <div class=\"cv-school\">">>
        \o Get(deg, "school", <<>>) \o <<"</div>\n        </div>">>

\* the parts appended under  if 'degrees' in cv_data
EducationSection(cv_data) ==
    IF Has(cv_data, "degrees")
    THEN LET degrees == Get(cv_data, "degrees", <<>>)
         IN << <<SECTION_OPEN, H_EDUCATION>> >>
                \o [i \in 1..Len(degrees) |-> DegreePart(degrees[i])]
                \o << <<SECTION_CLOSE>> >>
    ELSE <<>>

JobPart(job) ==
    LET start == Get(job, "start-month", <<>>) \o <<" ">>
                     \o PyStr(Get(job, "start-year", JStr(<<>>)))
        end == IF Has(job, "end-year")
               THEN Get(job, "end-month", <<>>) \o <<" ">>
                        \o PyStr(Get(job, "end-year", JStr(<<>>)))
               ELSE <<"Present">>
    IN <<"\n        <div class=\"cv-entry\">\n          <div class=\"cv-entry-header\">\n            <span class=\"cv-title\">">>
           \o Get(job, "title", <<>>)
           \o <<"</span>\n            <span class=\"cv-dates\">">>
           \o start \o <<" ", EN_DASH, " ">> \o end
           \o <<"</span>\n          </div>\n          <div class=\"cv-org\">">>
           \o Get(job, "affiliation", <<>>) \o <<", ">> \o Get(job, "location", <<>>)
           \o <<"</div>\n          <p class=\"cv-description\">">>
           \o Get(job, "description", <<>>) \o <<"</p>\n        </div>">>

\* the parts appended under  if 'employment' in cv_data
ExperienceSection(cv_data) ==
    IF Has(cv_data, "employment")
    THEN LET jobs == Get(cv_data, "employment", <<>>)
         IN << <<SECTION_OPEN, H_EXPERIENCE>> >>
                \o [i \in 1..Len(jobs) |-> JobPart(jobs[i])]
                \o << <<SECTION_CLOSE>> >>
    ELSE <<>>

\* the two source files, each with its own format_publication and its own
\* rule for the year of an award
RENDER_STATIC == "render_static"
APP == "app"

\* format_publication(bib_entries[key], name), as the file defines it
FormatPublicationOf(file, entry, name) ==
    IF file = APP THEN format_publication_app(entry, Some(name))
    ELSE format_publication_static(entry, Some(name))

\* for key in keys: if key in bib_entries: append the formatted publication
PublicationParts(keys, bib_entries, file, name) ==
    LET present == SelectSeq(keys, LAMBDA k : Has(bib_entries, k))
    IN [i \in 1..Len(present) |->
           <<"        ">>
               \o FormatPublicationOf(file, Get(bib_entries, present[i], EmptyDict), name)]

\* if category in bib and bib[category]: the heading and the publications
Subsection(bib, category, heading, bib_entries, file, name) ==
    IF Has(bib, category) /\ Get(bib, category, <<>>) # <<>>
    THEN << <<"        ", heading>> >>
             \o PublicationParts(Get(bib, category, <<>>), bib_entries, file, name)
    ELSE <<>>

\* render_static.generate_cv_html, under  if 'bibliography' in cv_data
PublicationsSection_static(cv_data, bib_entries) ==
    IF Has(cv_data, "bibliography")
    THEN LET bib == Get(cv_data, "bibliography", EmptyDict)
             name == FullName(cv_data)
         IN << <<SECTION_OPEN, H_PUBLICATIONS>> >>
                \o Subsection(bib, "conference-papers", H_CONFERENCE, bib_entries, RENDER_STATIC, name)
                \o Subsection(bib, "journal-articles", H_JOURNAL, bib_entries, RENDER_STATIC, name)
                \o Subsection(bib, "theses", H_THESES, bib_entries, RENDER_STATIC, name)
                \o << <<SECTION_CLOSE>> >>
    ELSE <<>>

\* app.generate_cv_html, under  if 'bibliography' in cv_data: conference
\* papers and theses only
PublicationsSection_app(cv_data, bib_entries) ==
    IF Has(cv_data, "bibliography")
    THEN LET bib == Get(cv_data, "bibliography", EmptyDict)
             name == FullName(cv_data)
         IN << <<SECTION_OPEN, H_PUBLICATIONS>> >>
                \o Subsection(bib, "conference-papers", H_CONFERENCE, bib_entries, APP, name)
                \o Subsection(bib, "theses", H_THESES, bib_entries, APP, name)
                \o << <<SECTION_CLOSE>> >>
    ELSE <<>>

\* ', '.join(str(y) for y in years)
JoinYears(years) == Join(<<", ">>, [i \in 1..Len(years) |-> PyStr(years[i])])

\* render_static: if 'year' in award / elif 'years' in award / else
AwardYear_static(award) ==
    IF Has(award, "year") THEN PyStr(Get(award, "year", JStr(<<>>)))
    ELSE IF Has(award, "years") THEN JoinYears(Get(award, "years", <<>>))
    ELSE <<>>

\* app: str(award.get('year', '')) or ', '.join(str(y) for y in award.get('years', []))
AwardYear_app(award) ==
    LET year == PyStr(Get(award, "year", JStr(<<>>)))
    IN IF year # <<>> THEN year ELSE JoinYears(Get(award, "years", <<>>))

LI_OPEN == "          <li>"
LI_CLOSE == "</li>"

\* year_str, as the file computes it
AwardYearOf(file, award) ==
    IF file = APP THEN AwardYear_app(award) ELSE AwardYear_static(award)

\* the parts appended under  if 'awards' in cv_data
AwardsSection(cv_data, file) ==
    IF Has(cv_data, "awards")
    THEN LET awards == Get(cv_data, "awards", <<>>)
         IN << <<SECTION_OPEN, H_AWARDS, "\n        <ul class=\"cv-list\">">> >>
                \o [i \in 1..Len(awards) |->
                       <<LI_OPEN>> \o Get(awards[i], "title", <<>>) \o <<", ">>
                           \o AwardYearOf(file, awards[i]) \o <<LI_CLOSE>>]
                \o << <<"        </ul>\n      </section>">> >>
    ELSE <<>>

\* the part appended under  if 'skills' in cv_data
SkillsSection(cv_data) ==
    IF Has(cv_data, "skills")
    THEN << <<SECTION_OPEN, H_SKILLS, "\n        <p class=\"cv-skills\">">>
               \o Join(<<" ", MIDDLE_DOT, " ">>, Get(cv_data, "skills", <<>>))
               \o <<"</p>\n      </section>">> >>
    ELSE <<>>

\* render_static.generate_cv_html(cv_data, bib_entries)
generate_cv_html_static(cv_data, bib_entries) ==
    Join(<<"\n">>,
         SummarySection(cv_data) \o EducationSection(cv_data)
             \o ExperienceSection(cv_data)
             \o PublicationsSection_static(cv_data, bib_entries)
             \o AwardsSection(cv_data, RENDER_STATIC)
             \o SkillsSection(cv_data))

\* render_static.load_cv_content()
load_cv_content_static(cvf, bibf) ==
    IF ~cvf.exists \/ ~bibf.exists THEN Return(NOT_FOUND)
    ELSE LET parsed == parse_bib_file_static(bibf)
         IN IF parsed.kind = "raise" THEN parsed
            ELSE Return(generate_cv_html_static(cvf.content, parsed.val))

\* app.generate_cv_html()
generate_cv_html_app(cvf, bibf) ==
    IF ~cvf.exists THEN Return(NOT_FOUND)
    ELSE LET cv_data == cvf.content
             bib_entries == parse_bib_file_app(bibf).val
         IN Return(Join(<<"\n">>,
                SummarySection(cv_data) \o EducationSection(cv_data)
                    \o ExperienceSection(cv_data)
                    \o PublicationsSection_app(cv_data, bib_entries)
                    \o AwardsSection(cv_data, APP)
                    \o SkillsSection(cv_data)))

-----------------------------------------------------------------------------
(* load_publications                                                       *)

\* the characters with the code points 32 to 126, in that order (the grave
\* accent, code point 96, is written by its denotation)
Printable ==
    <<" ", "!", "\"", "#", "$", "%", "&", "'", "(", ")", "*", "+",
      ",", "-", ".", "/", "0", "1", "2", "3", "4", "5", "6", "7",
      "8", "9", ":", ";", "<", "=", ">", "?", "@", "A", "B", "C",
      "D", "E", "F", "G", "H", "I", "J", "K", "L", "M", "N", "O",
      "P", "Q", "R", "S", "T", "U", "V", "W", "X", "Y", "Z", "[",
      "\\", "]", "^", "_", "{U+0060}", "a", "b", "c", "d", "e", "f", "g",
      "h", "i", "j", "k", "l", "m", "n", "o", "p", "q", "r", "s",
      "t", "u", "v", "w", "x", "y", "z", "{", "|", "}", "~">>

\* ord(c): control characters come before the printable ones
CodePoint(c) ==
    IF c = "\t" THEN 9
    ELSE IF c = "\n" THEN 10
    ELSE IF c = "\r" THEN 13
    ELSE 31 + (CHOOSE i \in 1..Len(Printable) : Printable[i] = c)

\* a < b for two str: at the first index where they differ the code point of
\* a is smaller, or a is a proper prefix of b
StrLess(a, b) ==
    LET diff == {i \in 1..Len(a) : i > Len(b) \/ a[i] # b[i]}
    IN IF diff = {} THEN Len(a) < Len(b)
       ELSE Least(diff) <= Len(b) /\ CodePoint(a[Least(diff)]) < CodePoint(b[Least(diff)])

\* list.sort(key=lambda x: x['year'], reverse=True): a stable sort, the
\* greater year first, equal years in the order they had
RECURSIVE SortByYearDescending(_)
SortByYearDescending(pubs) ==
    IF pubs = <<>> THEN <<>>
    ELSE LET last == pubs[Len(pubs)]
             rest == SortByYearDescending(SubSeq(pubs, 1, Len(pubs) - 1))
             \* last goes behind every publication whose year is not smaller
             ahead == {i \in 1..Len(rest) : ~StrLess(rest[i].year, last.year)}
             n == IF ahead = {} THEN 0 ELSE CHOOSE i \in ahead : \A h \in ahead : h <= i
         IN SubSeq(rest, 1, n) \o <<last>> \o SubSeq(rest, n + 1, Len(rest))

ROYTBURG == <<"R", "o", "y", "t", "b", "u", "r", "g">>

\* the venue of load_publications: the if / elif / else on entry_type
ListVenue(entry) ==
    LET entry_type == Get(entry, TYPE_KEY, <<>>)
    IN IF entry_type = INPROCEEDINGS THEN Get(entry, F_booktitle, <<>>)
       ELSE IF entry_type = ARTICLE THEN Get(entry, F_journal, <<>>)
       ELSE IF entry_type = MASTERSTHESIS
       THEN Get(entry, F_type, MASTERS_THESIS) \o <<", ">> \o Get(entry, F_school, <<>>)
       ELSE IF Get(entry, F_journal, <<>>) # <<>>
       THEN Get(entry, F_journal, <<>>)
       ELSE Get(entry, F_booktitle, <<>>)

\* meta.get(name): the value, or None
MetaGet(meta, name) == IF Has(meta, name) THEN Some(Get(meta, name, <<>>)) ELSE None

\* the dict load_publications builds for one entry of the bibliography
Publication(key, entry, meta) ==
    LET equal_contrib == MetaGet(meta, "equal_contribution")
        paper_url == Get(meta, "paper_url", <<>>)
    IN [key |-> key,
        title |-> Get(entry, F_title, <<>>),
        authors |-> format_authors_static(Get(entry, F_author, <<>>),
                                          Some(ROYTBURG), equal_contrib),
        venue |-> ListVenue(entry),
        year |-> Get(entry, F_year, <<>>),
        type |-> Get(entry, TYPE_KEY, <<>>),
        abstract |-> Get(meta, "abstract", <<>>),
        paper_url |-> IF paper_url # <<>> THEN paper_url ELSE Get(entry, F_url, <<>>),
        slides_url |-> MetaGet(meta, "slides_url"),
        code_url |-> MetaGet(meta, "code_url"),
        figure |-> MetaGet(meta, "figure"),
        also_at |-> Get(meta, "also_at", <<>>)]

\* if equal_contrib: has_equal_contrib = True, for some key of the mapping
HasEqualContrib(bib_entries, metadata) ==
    \E i \in 1..Len(bib_entries) :
        Get(Get(metadata, bib_entries[i][1], EmptyDict), "equal_contribution", <<>>) # <<>>

\* render_static.load_publications()
load_publications(bibf, metaf) ==
    IF ~bibf.exists THEN Return([publications |-> <<>>, has_equal_contrib |-> FALSE])
    ELSE LET parsed == parse_bib_file_static(bibf)
             bib_entries == parsed.val
             metadata == IF metaf.exists THEN metaf.content ELSE EmptyDict
             publications == [i \in 1..Len(bib_entries) |->
                 Publication(bib_entries[i][1], bib_entries[i][2],
                             Get(metadata, bib_entries[i][1], EmptyDict))]
         IN IF parsed.kind = "raise" THEN parsed
            ELSE Return([publications |-> SortByYearDescending(publications),
                         has_equal_contrib |-> HasEqualContrib(bib_entries, metadata)])

-----------------------------------------------------------------------------
(* The bibliography texts the parser is run on: every concatenation of at  *)
(* most MaxPieces pieces.                                                  *)

MaxPieces == 5

Pieces == {
    <<"@", "A", "{">>,        \* an entry marker, its type in upper case
    <<"k", ",">>,             \* a key and its comma
    <<" ">>,
    <<",">>,
    <<"F", "=", "{">>,        \* a field name and the opening brace
    <<"v">>,
    <<"}">>,
    <<"@">>}

Concat(ps) == Join(<<>>, ps)

Texts(n) == {Concat(ps) : ps \in UNION {[1..k -> Pieces] : k \in 0..n}}

NoArgs == [author_str |-> <<>>, highlight_name |-> None, equal_contribution |-> None]

InitParse ==
    /\ bib_file \in {NoFile} \cup {File(t) : t \in Texts(MaxPieces)}
    /\ cv_file = NoFile
    /\ meta_file = NoFile
    /\ author_args = NoArgs
    /\ pc = "start"
    /\ ret = NotCalled

\* a call of render_static.parse_bib_file(bib_path)
ParseBibStatic ==
    /\ pc = "start"
    /\ pc' = "render_static.parse_bib_file"
    /\ ret' = parse_bib_file_static(bib_file)
    /\ UNCHANGED <<bib_file, cv_file, meta_file, author_args>>

\* a call of app.parse_bib_file(bib_path)
ParseBibApp ==
    /\ pc = "start"
    /\ pc' = "app.parse_bib_file"
    /\ ret' = parse_bib_file_app(bib_file)
    /\ UNCHANGED <<bib_file, cv_file, meta_file, author_args>>

NextParse == ParseBibStatic \/ ParseBibApp

SpecParse == InitParse /\ [][NextParse]_vars

-----------------------------------------------------------------------------
(* The author strings format_authors is called with: at most MaxAuthors    *)
(* tokens joined by ' and '.                                               *)

MaxAuthors == 3

AuthorPieces == {
    <<"A">>, <<"B">>, <<"C">>,
    <<"S", ",", " ", "J">>,
    <<"D", ",", " ", "O">>,
    <<" ", "Q">>,
    <<"a", ",", "b", ",", "c">>,
    <<>>}

AuthorStrings(n) ==
    {Join(AND_SEP, ts) : ts \in UNION {[1..k -> AuthorPieces] : k \in 1..n}}

HighlightNames == {None, Some(<<"j">>), Some(<<"D", " ", "q">>)}

EqualContributions == {None, Some(<<>>), Some(<<0>>), Some(<<1, 5>>)}

InitAuthors ==
    /\ bib_file = NoFile
    /\ cv_file = NoFile
    /\ meta_file = NoFile
    /\ author_args \in [author_str : AuthorStrings(MaxAuthors),
                        highlight_name : HighlightNames,
                        equal_contribution : EqualContributions]
    /\ pc = "start"
    /\ ret = NotCalled

\* a call of render_static.format_authors
FormatAuthorsStatic ==
    /\ pc = "start"
    /\ pc' = "render_static.format_authors"
    /\ ret' = Return(format_authors_static(author_args.author_str,
                  author_args.highlight_name, author_args.equal_contribution))
    /\ UNCHANGED <<bib_file, cv_file, meta_file, author_args>>

\* a call of app.format_authors, which takes no equal_contribution
FormatAuthorsApp ==
    /\ pc = "start"
    /\ ~author_args.equal_contribution.some
    /\ pc' = "app.format_authors"
    /\ ret' = Return(format_authors_app(author_args.author_str,
                                        author_args.highlight_name))
    /\ UNCHANGED <<bib_file, cv_file, meta_file, author_args>>

NextAuthors == FormatAuthorsStatic \/ FormatAuthorsApp

SpecAuthors == InitAuthors /\ [][NextAuthors]_vars

-----------------------------------------------------------------------------
(* The files the CV page is generated from.                                *)

\* the text of one entry: @type{key, and one line  name = {value},  a field
FieldLines(fields) ==
    Concat([i \in 1..Len(fields) |->
        <<" ", " ">> \o fields[i][1] \o <<" ", "=", " ", "{">> \o fields[i][2]
            \o <<"}", ",", "\n">>])

EntryText(type, key, fields) ==
    <<"@">> \o type \o <<"{">> \o key \o <<",", "\n">> \o FieldLines(fields)
        \o <<"}", "\n", "\n">>

K0 == <<"k", "0">>
K1 == <<"k", "1">>
K2 == <<"k", "2">>

\* a bibliography with a conference paper k1 and an article k2
CvBibText ==
    EntryText(<<"I", "n", "P", "r", "o", "c", "e", "e", "d", "i", "n", "g", "s">>, K1,
              << <<F_author, <<"R", ",", " ", "D", " ", "a", "n", "d", " ", "S", ",", " ", "J">>>>,
                 <<F_title, <<"T">>>>, <<F_booktitle, <<"I">>>>, <<F_volume, <<"2">>>>,
                 <<F_pages, <<"1", "-", "9">>>>, <<F_year, <<"2", "0", "2", "3">>>> >>)
    \o EntryText(ARTICLE, K2,
              << <<F_author, <<"A">>>>, <<F_title, <<"U">>>>, <<F_journal, <<"N">>>>,
                 <<F_url, <<"h">>>>, <<F_year, <<"2", "0", "2", "0">>>> >>)

MaxAwards == 1

\* either no such field, or the field with one of the values
Optional(field, values) == {<<>>} \cup {<< <<field, v>> >> : v \in values}

Degree1 == << <<"degree", <<"B">>>>, <<"discipline", <<"c">>>>,
              <<"school", <<"u">>>>, <<"year", JInt(2021)>> >>

Job1 == << <<"title", <<"e">>>>, <<"affiliation", <<"f">>>>, <<"location", <<"g">>>>,
           <<"start-month", <<"M">>>>, <<"start-year", JInt(2022)>>,
           <<"description", <<"w">>>> >>

Job2 == Job1 \o << <<"end-month", <<"J">>>>, <<"end-year", JStr(<<"2", "3">>)>> >>

KeyLists == {<<>>, <<K0, K2, K1>>}

Bibliographies ==
    {c \o j \o t : c \in Optional("conference-papers", KeyLists),
                   j \in Optional("journal-articles", KeyLists),
                   t \in Optional("theses", KeyLists)}

Awards ==
    {<< <<"title", <<"P">>>> >> \o y \o ys :
        y \in Optional("year", {JInt(2020), JStr(<<>>)}),
        ys \in Optional("years", {<<JInt(2019), JInt(2021)>>})}

AwardLists(n) == UNION {[1..k -> Awards] : k \in 0..n}

CvRecords ==
    {<< <<"given-name", <<"D">>>>, <<"sur-name", <<"R">>>> >>
        \o su \o de \o em \o bi \o aw \o sk :
        su \in Optional("summary", {<<"s">>}),
        de \in Optional("degrees", {<<Degree1>>}),
        em \in Optional("employment", {<<Job1>>, <<Job1, Job2>>}),
        bi \in Optional("bibliography", Bibliographies),
        aw \in Optional("awards", AwardLists(MaxAwards)),
        sk \in Optional("skills", {<< <<"p">>, <<"q">> >>})}

InitCV ==
    /\ bib_file \in {NoFile, File(CvBibText)}
    /\ cv_file \in {NoFile} \cup {File(cv) : cv \in CvRecords}
    /\ meta_file = NoFile
    /\ author_args = NoArgs
    /\ pc = "start"
    /\ ret = NotCalled

\* a call of render_static.load_cv_content()
LoadCvContentStatic ==
    /\ pc = "start"
    /\ pc' = "render_static.load_cv_content"
    /\ ret' = load_cv_content_static(cv_file, bib_file)
    /\ UNCHANGED <<bib_file, cv_file, meta_file, author_args>>

\* a call of app.generate_cv_html()
GenerateCvHtmlApp ==
    /\ pc = "start"
    /\ pc' = "app.generate_cv_html"
    /\ ret' = generate_cv_html_app(cv_file, bib_file)
    /\ UNCHANGED <<bib_file, cv_file, meta_file, author_args>>

NextCV == LoadCvContentStatic \/ GenerateCvHtmlApp

SpecCV == InitCV /\ [][NextCV]_vars

-----------------------------------------------------------------------------
(* The files the publication list is loaded from: a bibliography of at     *)
(* most MaxEntries entries and a metadata overlay.                         *)

MaxEntries == 2

MISC == <<"m", "i", "s", "c">>

PubAuthor == << <<F_author, <<"R", "o", "y", "t", "b", "u", "r", "g", ",", " ", "D",
                              " ", "a", "n", "d", " ", "A">>>> >>

\* the type and the type-dependent fields of an entry
EntryShapes ==
    {[type |-> INPROCEEDINGS,
      fields |-> << <<F_booktitle, <<"I", "C", "M", "L">>>> >> \o v \o p] :
          v \in Optional(F_volume, {<<"2">>}),
          p \in Optional(F_pages, {<<"1", "-", "9">>})}
    \cup {[type |-> ARTICLE, fields |-> << <<F_journal, <<"N">>>> >> \o v] :
          v \in Optional(F_volume, {<<"2">>})}
    \cup {[type |-> MASTERSTHESIS, fields |-> t \o << <<F_school, <<"M", "I", "T">>>> >>] :
          t \in Optional(F_type, {<<"P">>, <<>>})}
    \cup {[type |-> MISC, fields |-> j \o << <<F_booktitle, <<"W">>>> >>] :
          j \in Optional(F_journal, {<<"N">>})}

Years == {<<"2", "0", "2", "3">>, <<"2", "0", "2", "0">>, <<"9", "9", "9">>}

PubEntries ==
    {[type |-> e.type, fields |-> PubAuthor \o e.fields \o y] :
        e \in EntryShapes, y \in Optional(F_year, Years)}

\* the key of the i-th entry of the file: the keys are distinct, or all k1
KeyOf(i, distinct) == IF distinct THEN <<"k", Digits[i + 1]>> ELSE K1

BibTexts(n) ==
    {Concat([i \in 1..Len(es) |-> EntryText(es[i].type, KeyOf(i, d), es[i].fields)]) :
        es \in UNION {[1..k -> PubEntries] : k \in 0..n}, d \in BOOLEAN}

MetaFiles ==
    {NoFile,
     File(EmptyDict),
     File(<< <<K1, << <<"equal_contribution", <<0>>>> >>>> >>),
     File(<< <<K1, << <<"equal_contribution", <<5>>>> >>>> >>),
     File(<< <<K1, << <<"equal_contribution", <<0, 5>>>>, <<"paper_url", <<"u">>>> >>>>,
             <<K2, << <<"equal_contribution", <<>>>>, <<"abstract", <<"x">>>> >>>> >>)}

InitPubs ==
    /\ bib_file \in {NoFile} \cup {File(t) : t \in BibTexts(MaxEntries)}
    /\ cv_file = NoFile
    /\ meta_file \in MetaFiles
    /\ author_args = NoArgs
    /\ pc = "start"
    /\ ret = NotCalled

\* a call of render_static.load_publications()
LoadPublications ==
    /\ pc = "start"
    /\ pc' = "render_static.load_publications"
    /\ ret' = load_publications(bib_file, meta_file)
    /\ UNCHANGED <<bib_file, cv_file, meta_file, author_args>>

NextPubs == LoadPublications

SpecPubs == InitPubs /\ [][NextPubs]_vars

-----------------------------------------------------------------------------
(* The two places that compute a venue, run on the same bibliography: the  *)
(* publication list, and format_publication on an entry of the mapping.    *)

InitVenue == InitPubs /\ meta_file = NoFile

\* a call format_publication(bib_entries[key], name) for a key of the parsed
\* mapping, with or without a name to highlight
FormatPublicationStatic ==
    /\ pc = "start"
    /\ bib_file.exists
    /\ \E i \in 1..Len(parse_bib_file_static(bib_file).val),
          highlight_name \in {None, Some(ROYTBURG)} :
           ret' = Return(format_publication_static(
                             parse_bib_file_static(bib_file).val[i][2], highlight_name))
    /\ pc' = "render_static.format_publication"
    /\ UNCHANGED <<bib_file, cv_file, meta_file, author_args>>

NextVenue == LoadPublications \/ FormatPublicationStatic

SpecVenue == InitVenue /\ [][NextVenue]_vars

-----------------------------------------------------------------------------
(* Claims on parse_bib_file                                                *)

ParseReturned == pc \in {"render_static.parse_bib_file", "app.parse_bib_file"}

\* C3: parse_bib_file never ends in an error, and it returns the empty
\* mapping when the bibliography file is missing or its text holds no entry
\* (a text without any @ holds none).
C3_ParseNeverRaises ==
    ParseReturned =>
        /\ ret.kind = "return"
        /\ (~bib_file.exists \/ ~Contains(bib_file.content, <<"@">>))
               => ret.val = EmptyDict

\* C4: every record of the returned mapping is stored under a key that is
\* non-empty after trimming and carries a _type marker that holds the
\* lower-cased type of an entry of the text with that key.
C4_KeyAndTypeMarker ==
    (ParseReturned /\ ret.kind = "return") =>
        \A i \in 1..Len(ret.val) :
            LET key == ret.val[i][1]
                fields == ret.val[i][2]
            IN /\ Strip(key) # <<>>
               /\ Has(fields, TYPE_KEY)
               /\ \E p \in 1..Len(bib_file.content) :
                      LET m == EntryMatch(bib_file.content, p)
                      IN m.ok /\ Strip(m.key) = key
                              /\ Get(fields, TYPE_KEY, <<>>) = Lower(m.type)

\* An entry marker @<type>{ at index p, as the specification of the parser
\* describes it.
EntryMarkerAt(c, p) ==
    /\ p <= Len(c) /\ c[p] = "@"
    /\ LET w == WordEnd(c, p + 1) IN w > p + 1 /\ w <= Len(c) /\ c[w] = "{"

\* the index of the first entry marker at or after i, or Len(c) + 1
NextMarker(c, i) ==
    LET hits == {p \in i..Len(c) : EntryMarkerAt(c, p)}
    IN IF hits = {} THEN Len(c) + 1 ELSE CHOOSE p \in hits : \A h \in hits : p <= h

Malformed == [ok |-> FALSE, items |-> <<>>]

\* The <fieldname> = {<value>} pairs of the text b of one block, from index i
\* on: pairs separated by commas and whitespace, no brace inside a value, and
\* at most the closing brace of the entry after the last pair.
RECURSIVE BlockPairs(_, _, _)
BlockPairs(b, i, acc) ==
    LET j == SpaceEnd([k \in 1..Len(b) |-> IF b[k] = "," THEN " " ELSE b[k]], i)
        m == FieldMatch(b, j)
    IN IF j > Len(b) THEN [ok |-> TRUE, items |-> acc]
       ELSE IF b[j] = "}" /\ Strip(From(b, j + 1)) = <<>>
       THEN [ok |-> TRUE, items |-> acc]
       ELSE IF m.ok /\ "{" \notin Range(m.value)
       THEN BlockPairs(b, m.end, Append(acc, <<Lower(m.name), CleanValue(m.value)>>))
       ELSE Malformed

\* The entry blocks of a text that is nothing but entry blocks, from index p
\* on: each block is @<type>{<key>, and the pairs up to the next entry marker.
RECURSIVE Blocks(_, _, _)
Blocks(c, p, acc) ==
    IF p > Len(c) THEN [ok |-> TRUE, items |-> acc]
    ELSE IF ~EntryMarkerAt(c, p) THEN Malformed
    ELSE LET w == WordEnd(c, p + 1)
             q == NextIn(c, {","}, w + 1)
             m == NextMarker(c, q + 1)
             key == SubSeq(c, w + 1, q - 1)
             pairs == BlockPairs(SubSeq(c, q + 1, m - 1), 1, <<>>)
         IN IF /\ q <= Len(c)
               /\ Strip(key) # <<>>
               /\ Range(key) \cap {"@", "{", "}"} = {}
               /\ pairs.ok
            THEN Blocks(c, m, Append(acc, [key |-> Strip(key), pairs |-> pairs.items]))
            ELSE Malformed

\* C5: in a text made of entry blocks with distinct keys, the record built
\* for the key of a block holds every pair of the block (for a repeated field
\* name the value of its last pair) and no field of another block.
C5_BlockPairsKept ==
    (ParseReturned /\ ret.kind = "return") =>
        LET bs == Blocks(bib_file.content, 1, <<>>)
        IN (bs.ok /\ \A i, j \in 1..Len(bs.items) :
                         bs.items[i].key = bs.items[j].key => i = j) =>
            \A i \in 1..Len(bs.items) :
                LET blk == bs.items[i]
                    rec == Get(ret.val, blk.key, EmptyDict)
                IN /\ Has(ret.val, blk.key)
                   /\ \A n \in 1..Len(blk.pairs) :
                          /\ Has(rec, blk.pairs[n][1])
                          /\ (\A l \in (n + 1)..Len(blk.pairs) :
                                  blk.pairs[l][1] # blk.pairs[n][1])
                                 => Get(rec, blk.pairs[n][1], <<>>) = blk.pairs[n][2]
                   /\ \A f \in 1..Len(rec) :
                          \/ rec[f][1] = TYPE_KEY
                          \/ \E n \in 1..Len(blk.pairs) : blk.pairs[n][1] = rec[f][1]

-----------------------------------------------------------------------------
(* Claims on format_authors                                                *)

AuthorsReturned == pc \in {"render_static.format_authors", "app.format_authors"}

CommaCount(t) == Cardinality({i \in 1..Len(t) : t[i] = ","})

\* 'Last, First' read as 'First Last'; a token without a comma as it is
NameOf(t) ==
    IF CommaCount(t) = 0 THEN t
    ELSE LET i == CHOOSE k \in 1..Len(t) : t[k] = ","
         IN Strip(SubSeq(t, i + 1, Len(t))) \o <<" ">> \o Strip(SubSeq(t, 1, i - 1))

\* the names after the first one of a list of three or more
RECURSIVE SerialTail(_)
SerialTail(names) ==
    IF Len(names) = 1 THEN <<",", " ", "a", "n", "d", " ">> \o names[1]
    ELSE <<",", " ">> \o names[1] \o SerialTail(Tail(names))

Joined(names) ==
    IF Len(names) = 1 THEN names[1]
    ELSE IF Len(names) = 2 THEN names[1] \o AND_SEP \o names[2]
    ELSE names[1] \o SerialTail(Tail(names))

\* C6: without a highlight name and without equal contributors, the result
\* of format_authors is the names in input order, one name as it is, two
\* names as 'A and B', three or more separated by ', ' with ', and ' before
\* the last; a token 'Last, First' gives the name 'First Last' and a token
\* without a comma gives itself.
C6_AuthorsJoined ==
    (/\ AuthorsReturned
     /\ ~author_args.highlight_name.some
     /\ ~author_args.equal_contribution.some) =>
        LET toks == AuthorTokens(author_args.author_str)
        IN /\ (\A i \in 1..Len(toks) : CommaCount(toks[i]) <= 1) =>
                  Flat(ret.val) = Flat(Joined([i \in 1..Len(toks) |-> NameOf(toks[i])]))
           /\ Flat(author_args.author_str) = "S, J and D, O" =>
                  Flat(ret.val) = "J S and O D"
           /\ Flat(author_args.author_str) = "A and B and C" =>
                  Flat(ret.val) = "A, B, and C"

\* three authors, one of them written 'Last, First', have been joined
C6_Witness ==
    /\ pc = "render_static.format_authors"
    /\ ~author_args.highlight_name.some
    /\ ~author_args.equal_contribution.some
    /\ Flat(author_args.author_str) = "S, J and A and D, O"
    /\ Flat(ret.val) = "J S, A, and O D"

-----------------------------------------------------------------------------
(* Claims on generate_cv_html and load_cv_content                          *)

CvReturned == pc \in {"render_static.load_cv_content", "app.generate_cv_html"}

\* generate_cv_html has run: the CV record was read, and for render_static,
\* whose load_cv_content calls it, the bibliography file was there as well
CvGenerated ==
    /\ CvReturned
    /\ ret.kind = "return"
    /\ cv_file.exists
    /\ pc = "render_static.load_cv_content" => bib_file.exists

Headings == {H_SUMMARY, H_EDUCATION, H_EXPERIENCE, H_PUBLICATIONS, H_CONFERENCE,
             H_JOURNAL, H_THESES, H_AWARDS, H_SKILLS}

When(cond, heading) == IF cond THEN <<heading>> ELSE <<>>

NonEmptyList(bib, category) == Has(bib, category) /\ Get(bib, category, <<>>) # <<>>

\* the headings the CV record calls for, in the order of the specification
HeadingsFor(cv) ==
    LET bib == Get(cv, "bibliography", EmptyDict)
    IN When(Has(cv, "summary"), H_SUMMARY)
       \o When(Has(cv, "degrees"), H_EDUCATION)
       \o When(Has(cv, "employment"), H_EXPERIENCE)
       \o When(Has(cv, "bibliography"), H_PUBLICATIONS)
       \o When(Has(cv, "bibliography") /\ NonEmptyList(bib, "conference-papers"),
               H_CONFERENCE)
       \o When(Has(cv, "bibliography") /\ NonEmptyList(bib, "journal-articles"),
               H_JOURNAL)
       \o When(Has(cv, "bibliography") /\ NonEmptyList(bib, "theses"), H_THESES)
       \o When(Has(cv, "awards"), H_AWARDS)
       \o When(Has(cv, "skills"), H_SKILLS)

\* C1: the headings of the generated CV are, in this order, Summary,
\* Education, Experience, Publications (with Conference Papers, Journal
\* Articles, Theses), Awards, Skills, each one exactly when its field is
\* present, a subsection exactly when its key list is present and non-empty.
C1_SectionOrder ==
    CvGenerated =>
        SelectSeq(ret.val, LAMBDA x : x \in Headings) = HeadingsFor(cv_file.content)

\* the indices of the elements of s that equal x, in order
Positions(s, x) == SelectSeq([i \in 1..Len(s) |-> i], LAMBDA i : s[i] = x)

\* the texts of s between an element open and the next element close
Between(s, open, close) ==
    LET at == Positions(s, open)
    IN [n \in 1..Len(at) |->
           Flat(SubSeq(s, at[n] + 1, NextIn(s, {close}, at[n]) - 1))]

\* the year string the specification gives an award
YearStringFor(award) ==
    IF Has(award, "year") THEN PyStr(Get(award, "year", JStr(<<>>)))
    ELSE IF Has(award, "years")
    THEN LET years == Get(award, "years", <<>>)
         IN Join(<<",", " ">>, [i \in 1..Len(years) |-> PyStr(years[i])])
    ELSE <<>>

\* C8: every award is displayed as '<title>, <year string>', the year string
\* being the 'year' field when it is present, else the comma-joined 'years'
\* list when that is present, else empty.
C8_AwardYear ==
    CvGenerated =>
        LET awards == Get(cv_file.content, "awards", <<>>)
        IN Between(ret.val, LI_OPEN, LI_CLOSE)
               = [n \in 1..Len(awards) |->
                     Flat(Get(awards[n], "title", <<>>) \o <<",", " ">>
                              \o YearStringFor(awards[n]))]

\* C9: when the CV record file or the bibliography file is missing, the CV
\* content is the placeholder fragment and no error is raised.
C9_PlaceholderWhenMissing ==
    (CvReturned /\ (~cv_file.exists \/ ~bib_file.exists)) => ret = Return(NOT_FOUND)

\* the mapping parse_bib_file gives for the bibliography file
ParsedBibliography ==
    IF bib_file.exists THEN ParseEntries(bib_file.content, 1, EmptyDict) ELSE EmptyDict

\* the citation keys the bibliography section of the CV record lists
ListedKeys(cv) ==
    LET bib == Get(cv, "bibliography", EmptyDict)
    IN Get(bib, "conference-papers", <<>>) \o Get(bib, "journal-articles", <<>>)
           \o Get(bib, "theses", <<>>)

\* C10: no error is raised, and the publication fragments of the output are
\* those of the listed keys that the mapping holds, one each, in the listed
\* order.
C10_ListedKeysFormatted ==
    (CvReturned /\ cv_file.exists /\ (pc = "render_static.load_cv_content" => bib_file.exists)) =>
        /\ ret.kind = "return"
        /\ LET cv == cv_file.content
               present == SelectSeq(ListedKeys(cv), LAMBDA k : Has(ParsedBibliography, k))
           IN Between(ret.val, PUB_OPEN, PUB_CLOSE)
                  = [n \in 1..Len(present) |->
                        Flat(SubSeq(format_publication_static(
                                 Get(ParsedBibliography, present[n], EmptyDict),
                                 Some(FullName(cv))),
                             2, Len(format_publication_static(
                                 Get(ParsedBibliography, present[n], EmptyDict),
                                 Some(FullName(cv)))) - 1))]

-----------------------------------------------------------------------------
(* Claims on load_publications                                             *)

PubsReturned == pc = "render_static.load_publications" /\ ret.kind = "return"

\* C2: the venue of every publication load_publications returns is the venue
\* format_publication derives for the same entry of the bibliography: the
\* booktitle with ', vol. <volume>' and ', pp. <pages>' for a conference
\* paper, the journal with ', vol. <volume>' for an article, '<type>,
\* <school>' for a thesis, otherwise the journal, else the booktitle.
C2_VenueAsFormatted ==
    PubsReturned =>
        \A i \in 1..Len(ret.val.publications) :
            LET pub == ret.val.publications[i]
            IN Flat(pub.venue) =
                   Flat(PublicationVenue(Get(ParsedBibliography, pub.key, EmptyDict)))

\* the number a string of decimal digits denotes
RECURSIVE YearNumber(_)
YearNumber(y) ==
    IF y = <<>> THEN 0
    ELSE 10 * YearNumber(SubSeq(y, 1, Len(y) - 1))
             + (CHOOSE d \in 0..9 : Digits[d + 1] = y[Len(y)])

IsYear(y) == y # <<>> /\ Range(y) \subseteq Range(Digits)

\* the position of a citation key in the parsed mapping
KeyPosition(key) ==
    CHOOSE i \in 1..Len(ParsedBibliography) : ParsedBibliography[i][1] = key

\* C7: the publications come back ordered by year, descending: of any two
\* with a year, the one of the later year is first, and two of the same year
\* are in the order of their keys in the parsed mapping.
C7_LaterYearFirst ==
    PubsReturned =>
        \A i, j \in 1..Len(ret.val.publications) :
            LET a == ret.val.publications[i]
                b == ret.val.publications[j]
            IN (i < j /\ IsYear(a.year) /\ IsYear(b.year)) =>
                   /\ YearNumber(a.year) >= YearNumber(b.year)
                   /\ a.year = b.year => KeyPosition(a.key) < KeyPosition(b.key)

-----------------------------------------------------------------------------
(* Claims relating app.py to render_static.py                              *)

\* C11: app.py generates the CV by the same logic as render_static.py: for
\* the CV record and the parsed bibliography mapping app.generate_cv_html has
\* read, its HTML is the string render_static.generate_cv_html returns for
\* them.
C11_SameHtml ==
    (pc = "app.generate_cv_html" /\ cv_file.exists) =>
        /\ ret.kind = "return"
        /\ Flat(ret.val) =
               Flat(generate_cv_html_static(cv_file.content, ParsedBibliography))

-----------------------------------------------------------------------------
(* Claims on the equal-contribution flag and the thesis venue              *)

\* the rendered author string holds the marker format_authors appends
CarriesMarker(pub) == EQUAL_MARK \in Range(pub.authors)

\* C12: the flag load_publications returns is true exactly when some
\* publication of the returned list carries an equal-contribution marker in
\* its rendered author string.
C12_FlagIffMarker ==
    PubsReturned =>
        (ret.val.has_equal_contrib
            <=> \E i \in 1..Len(ret.val.publications) :
                    CarriesMarker(ret.val.publications[i]))

\* '<T>, <school>', T the type field of the entry, or "Master's Thesis" when
\* the entry has no type value
ThesisVenue(entry) ==
    (IF Get(entry, F_type, <<>>) # <<>> THEN Get(entry, F_type, <<>>) ELSE MASTERS_THESIS)
        \o <<", ">> \o Get(entry, F_school, <<>>)

IsThesis(entry) == Get(entry, TYPE_KEY, <<>>) = MASTERSTHESIS

\* the venue inside a fragment format_publication returns
VenueOf(fragment) == Between(fragment, "</strong>. <em>", "</em>, ")[1]

\* C13: for a thesis entry the venue is '<T>, <school>', in the publication
\* load_publications builds for it and in the fragment format_publication
\* returns for it, with "Master's Thesis" for T when the type field is absent
\* or empty.
C13_ThesisVenue ==
    /\ PubsReturned =>
           \A i \in 1..Len(ret.val.publications) :
               LET pub == ret.val.publications[i]
                   entry == Get(ParsedBibliography, pub.key, EmptyDict)
               IN IsThesis(entry) => Flat(pub.venue) = Flat(ThesisVenue(entry))
    /\ pc = "render_static.format_publication" =>
           \A i \in 1..Len(ParsedBibliography), highlight_name \in {None, Some(ROYTBURG)} :
               LET entry == ParsedBibliography[i][2]
               IN (IsThesis(entry)
                       /\ ret.val = format_publication_static(entry, highlight_name))
                      => VenueOf(ret.val) = Flat(ThesisVenue(entry))


=============================================================================
